---- MODULE Spec2Model ----
(***************************************************************************)
(* The webmail server: one process-wide mail session (authMethods), the    *)
(* authentication middleware, and the request handlers of the express      *)
(* application, over an abstract IMAP server.                              *)
(*                                                                         *)
(* A request is served in steps: the synchronous part of the middleware    *)
(* and of the handler runs when the request arrives, and every protocol    *)
(* round-trip (connect, list folders, open folder, search, fetch, store,   *)
(* expunge) completes in a later step, in which its callback runs.         *)
(***************************************************************************)
EXTENDS Integers, Sequences, FiniteSets, TLC

\* ------------------------------------------------------------- bounds
MaxMsgs == 3
MaxGap == 1
MaxPage == 2
MaxPerPage == 2
MaxId == 2
MaxConns == 2
SmallMsgs == 1
MaxSent == 1

\* The request slots: at most two requests are in flight together.
Reqs == {"A", "B"}

\* ------------------------------------------------- program constants
NULL == 0
DefaultPage == 1
DefaultPageSize == 10

\* ------------------------------------------------------------ strings
\* A string is the sequence of its characters.
INBOX == <<"I", "N", "B", "O", "X">>
Trash == <<"T", "r", "a", "s", "h">>
Sent == <<"S", "e", "n", "t">>
SentItems == <<"S", "e", "n", "t", " ", "I", "t", "e", "m", "s">>
NoString == <<>>

UpperLower ==
    { <<"A", "a">>, <<"B", "b">>, <<"E", "e">>, <<"H", "h">>, <<"I", "i">>,
      <<"J", "j">>, <<"K", "k">>, <<"M", "m">>, <<"N", "n">>, <<"O", "o">>,
      <<"R", "r">>, <<"S", "s">>, <<"T", "t">>, <<"U", "u">>, <<"X", "x">> }

LowerChar(c) ==
    IF \E p \in UpperLower : p[1] = c
    THEN (CHOOSE p \in UpperLower : p[1] = c)[2]
    ELSE c

\* toLowerCase left out: the comparison becomes case-sensitive.
toLowerCaseOmitted(s) == s

toLowerCase(s) == [i \in 1..Len(s) |-> LowerChar(s[i])]

includes(s, t) ==
    \E i \in 0..(Len(s) - Len(t)) : SubSeq(s, i + 1, i + Len(t)) = t

\* Array.prototype.find: the first element satisfying the test, NoString
\* (undefined) when there is none.
RECURSIVE find(_, _)
find(keys, folder) ==
    IF keys = <<>> THEN NoString
    ELSE IF includes(toLowerCase(Head(keys)), toLowerCase(folder))
         THEN Head(keys)
         ELSE find(Tail(keys), folder)

\* ---------------------------------------------------------- pagination
Min2(a, b) == IF a < b THEN a ELSE b

\* parseInt(q) || d : an absent, non-numeric or zero query value (0) is d.
OrDefault(q, d) == IF q = 0 THEN d ELSE q

\* Math.ceil(a / b) for a >= 0, b >= 1
Ceil(a, b) == (a + b - 1) \div b

\* results.sort((a, b) => b - a)
RECURSIVE SortDesc(_)
SortDesc(s) ==
    IF s = <<>> THEN <<>>
    ELSE LET m == CHOOSE i \in 1..Len(s) : \A j \in 1..Len(s) : s[i] >= s[j]
             rest == [k \in 1..(Len(s) - 1) |-> IF k < m THEN s[k] ELSE s[k + 1]]
         IN  <<s[m]>> \o SortDesc(rest)

\* Array.prototype.slice(from, to) for 0 <= from <= to
slice(s, from, to) == SubSeq(s, from + 1, Min2(to, Len(s)))

Range(s) == {s[i] : i \in 1..Len(s)}

\* ------------------------------------------------------------- state
VARIABLES
    imap,            \* authMethods: the connection handle (NULL or a connection)
    transporter,     \* authMethods: the outbound client handle (NULL or a client)
    selectedFolder,  \* the application's currently selected folder
    conns,           \* every connection created: state, user, selected box
    transports,      \* every outbound client created: "none", "live", "closed"
    nconn,           \* the number of connections created so far
    boxes,           \* the server's folder names, in listing order
    store,           \* the server's folders: the messages of each, by sequence number
    req,             \* per request slot: the request and its handler's locals
    res,             \* per request slot: the responses written
    pair,            \* history: the last successful flag requests (for the round trip)
    overtaken        \* history: the requests whose authentication was in flight
                     \* when a logout ran

vars == <<imap, transporter, selectedFolder, conns, transports, nconn, boxes,
          store, req, res, pair, overtaken>>

ConnIds == 1..MaxConns

\* ------------------------------------------------------ the mail server
\* A folder of n messages whose identifiers (UIDs) are g+1 .. g+n, the k oldest
\* of them seen; a message's sequence number is its position in the folder.
Mailboxes(maxN, maxGap) ==
    UNION { { [i \in 1..n |-> [uid |-> i + g, seen |-> (i <= k), deleted |-> FALSE]] :
              k \in 0..n } :
            n \in 0..maxN, g \in 0..maxGap }

FolderLists ==
    { <<INBOX, SentItems, Sent, Trash>>, <<Trash, Sent, INBOX>> }

Users == {"alice", "bob"}

NewConn(user) ==
    [state |-> "connecting", user |-> user, box |-> NoString, readOnly |-> FALSE]

NoConn == [state |-> "unused", user |-> "none", box |-> NoString, readOnly |-> FALSE]

\* connection.end(), or the socket closed after a failed login
Ended(cs, c) == [cs EXCEPT ![c] = [NoConn EXCEPT !.state = "disconnected"]]

\* ------------------------------------------------------------ requests
IdleReq ==
    [pc |-> "idle", kind |-> "none", cred |-> "none", query |-> NoString,
     page |-> 0, perPage |-> 0, id |-> 0,
     tr |-> NULL, conn |-> NULL, folder |-> NoString, box |-> NoString,
     pageN |-> 0, pageSizeN |-> 0, totalMessages |-> 0, totalPages |-> 0,
     sliced |-> <<>>, messages |-> <<>>, parsed |-> <<>>, error |-> "none",
     late |-> FALSE]

\* A request is finished when its handler has nothing left to run: "done", or
\* the middleware's promise was rejected ("rejected"), or a callback the
\* handler waits for never comes or threw outside any try block ("hung").
Finished(q) == q.pc \in {"done", "rejected", "hung"}

\* The handler's state when it ends having received or caught an error.
Failed(q, e) == [q EXCEPT !.pc = "done", !.error = e]

\* res.status(s).json({ message: m })
Reply(s, m) ==
    [status |-> s, message |-> m, emails |-> <<>>, page |-> 0, pageSize |-> 0,
     totalPages |-> 0, totalMessages |-> 0]

\* res.status(200).json({ emails, page, pageSize, totalPages, totalMessages })
PageResult(emails, q) ==
    [status |-> 200, message |-> "", emails |-> emails, page |-> q.pageN,
     pageSize |-> q.pageSizeN, totalPages |-> q.totalPages,
     totalMessages |-> q.totalMessages]

NoPair == [stage |-> 0, kind |-> "none", id |-> 0, box |-> NoString,
           before |-> FALSE, after |-> FALSE]

\* The requests a client may send, from the given input sets.
Requests(In) ==
    UNION {
        { [IdleReq EXCEPT !.kind = "get", !.cred = c, !.query = f, !.page = p,
                          !.perPage = s] :
            c \in In.creds, f \in In.folders, p \in In.pages, s \in In.perPages },
        { [IdleReq EXCEPT !.kind = k, !.cred = c, !.id = i] :
            k \in In.kinds \ {"get", "login"}, c \in In.creds, i \in In.ids },
        { [IdleReq EXCEPT !.kind = "login", !.cred = c] : c \in In.creds } }

\* A request takes a slot: its request and response objects are new.
Put(r, q) == [req EXCEPT ![r] = q]

PutRes(r, out) == [res EXCEPT ![r] = out]

\* No request other than r is in flight.
Alone(r) == \A x \in Reqs \ {r} : req[x].pc = "idle" \/ Finished(req[x])

\* ------------------------------------------------------------- Init
InitOn(lists, inboxes, trashes) ==
    /\ imap = NULL
    /\ transporter = NULL
    /\ selectedFolder = INBOX
    /\ conns = [c \in ConnIds |-> NoConn]
    /\ transports = [c \in ConnIds |-> "none"]
    /\ nconn = 0
    /\ boxes \in lists
    /\ \E inbox \in inboxes, trash \in trashes :
         store = [f \in Range(boxes) |->
                    IF f = INBOX THEN inbox
                    ELSE IF f = Trash THEN trash
                         ELSE <<>>]
    /\ req = [r \in Reqs |-> IdleReq]
    /\ res = [r \in Reqs |-> <<>>]
    /\ pair = NoPair
    /\ overtaken = {}

\* Trash holds one unseen message.
InitWith(lists, inboxes) ==
    InitOn(lists, inboxes, {<<[uid |-> 1, seen |-> FALSE, deleted |-> FALSE]>>})

Init == InitWith(FolderLists, Mailboxes(MaxMsgs, MaxGap))

\* ------------------------------------------------- authMethods, middleware
\* getImap: a connection whose state is "open" has its box closed; the handle
\* is returned either way.
getImap(cs, h) ==
    IF h # NULL /\ cs[h].state = "open"
    THEN [cs EXCEPT ![h].box = NoString]
    ELSE cs

\* imapAuth, up to the await: an established connection in state "open" is
\* ended, and a new connection c is created and told to connect.
imapAuthStart(cs, h, c, user) ==
    LET ended == IF h # NULL /\ cs[h].state = "open" THEN Ended(cs, h) ELSE cs
    IN  [ended EXCEPT ![c] = NewConn(user)]

\* The test left out: every request with credentials authenticates again.
NeedsAuthAlways(h) == TRUE

\* The test of the middleware that decides whether imapAuth is called.
NeedsAuth(h) == h = NULL

\* The synchronous part of each handler, run by next(): the handler reads the
\* connection handle and issues its first protocol call.
StartHandler(q, h, t, sel) ==
    CASE q.kind = "get" ->
           [q EXCEPT !.pc = "getBoxes", !.conn = h, !.tr = NULL,
                     !.folder = IF q.query = NoString THEN INBOX ELSE q.query]
      [] q.kind \in {"read", "unread"} ->
           [q EXCEPT !.pc = "openBox", !.conn = h, !.tr = NULL, !.box = sel]
      [] q.kind = "reply" ->
           [q EXCEPT !.pc = "openBox", !.conn = h, !.tr = t, !.box = sel]
      [] q.kind = "delete" ->
           [q EXCEPT !.pc = "openBox", !.conn = h, !.tr = NULL, !.box = Trash]
      [] OTHER -> [q EXCEPT !.pc = "done", !.tr = NULL]

StartResponse(q) ==
    IF q.kind = "login" THEN <<Reply(200, "Logged in")>> ELSE <<>>

\* The round-trip history restarts unless the request continues a pair.
PairOnArrival(r, q) ==
    IF /\ Alone(r)
       /\ pair.stage = 1
       /\ q.kind \in {"read", "unread"}
       /\ q.kind # pair.kind
       /\ q.id = pair.id
       /\ q.cred # "none"
    THEN pair
    ELSE NoPair

\* A request arrives at an endpoint behind authMiddleware.
Arrive(r, In) ==
    /\ req[r].pc = "idle" \/ Finished(req[r])
    /\ \E q \in Requests(In) :
         LET h == imap
             t == transporter
             cs == getImap(conns, h)
         IN  /\ pair' = PairOnArrival(r, q)
             /\ IF q.cred = "none"
                THEN /\ req' = Put(r, [q EXCEPT !.pc = "done"])
                     /\ res' = PutRes(r, <<Reply(401, "You are not authenticated")>>)
                     /\ conns' = cs
                     /\ UNCHANGED <<imap, transporter, transports, nconn>>
                ELSE IF NeedsAuth(h)
                THEN /\ nconn < MaxConns
                     /\ nconn' = nconn + 1
                     /\ conns' = imapAuthStart(cs, imap, nconn + 1, q.cred)
                     /\ req' = Put(r, [q EXCEPT !.pc = "auth", !.conn = nconn + 1,
                                                !.tr = t])
                     /\ res' = PutRes(r, <<>>)
                     /\ UNCHANGED <<imap, transporter, transports>>
                ELSE /\ transporter' = IF t = NULL THEN h ELSE transporter
                     /\ transports' = IF t = NULL
                                      THEN [transports EXCEPT ![h] = "live"]
                                      ELSE transports
                     /\ conns' = getImap(cs, imap)
                     /\ req' = Put(r, StartHandler(q, imap, transporter',
                                                   selectedFolder))
                     /\ res' = PutRes(r, StartResponse(q))
                     /\ UNCHANGED <<imap, nconn>>
    /\ overtaken' = overtaken \ {r}
    /\ UNCHANGED <<selectedFolder, boxes, store>>

\* imapConnect's "ready" callback: imapAuth stores the connection in the
\* handle, the middleware resumes, creates the outbound client if the handle
\* it read on arrival was null, and runs the handler.
AuthReady(r) ==
    /\ req[r].pc = "auth"
    /\ req[r].cred \in Users
    /\ LET c == req[r].conn
           cs == [conns EXCEPT ![c].state = "authenticated"]
       IN  /\ imap' = c
           /\ transporter' = IF req[r].tr = NULL THEN c ELSE transporter
           /\ transports' = IF req[r].tr = NULL
                            THEN [transports EXCEPT ![c] = "live"]
                            ELSE transports
           /\ conns' = getImap(cs, c)
           /\ req' = [req EXCEPT ![r] = StartHandler(req[r], c, transporter',
                                                     selectedFolder)]
           /\ res' = [res EXCEPT ![r] = StartResponse(req[r])]
    /\ UNCHANGED <<selectedFolder, nconn, boxes, store, pair, overtaken>>

\* The handle assigned before the connection is ready: it keeps the failed one.
HandleAfterErrorKept(h, c) == c

\* The connection handle after imapConnect was rejected for connection c: the
\* assignment of imapAuth's try block did not happen.
HandleAfterError(h, c) == h

\* imapConnect's "error" callback: the promise is rejected, imapAuth rethrows
\* and the middleware's promise is rejected: it writes no response and does
\* not call next().
AuthError(r) ==
    /\ req[r].pc = "auth"
    /\ conns' = Ended(conns, req[r].conn)
    /\ imap' = HandleAfterError(imap, req[r].conn)
    /\ req' = [req EXCEPT ![r].pc = "rejected", ![r].error = "err"]
    /\ UNCHANGED <<transporter, selectedFolder, transports, nconn, boxes,
                   store, res, pair, overtaken>>

\* GET /logout: logout() ends and forgets the connection and the outbound
\* client, then answers 200.  The endpoint is not behind the middleware.
Logout(r) ==
    /\ req[r].pc = "idle" \/ Finished(req[r])
    /\ conns' = IF imap # NULL THEN Ended(conns, imap) ELSE conns
    /\ imap' = NULL
    /\ transports' = IF transporter # NULL
                     THEN [transports EXCEPT ![transporter] = "closed"]
                     ELSE transports
    /\ transporter' = NULL
    /\ req' = Put(r, [IdleReq EXCEPT !.pc = "done", !.kind = "logout"])
    /\ res' = PutRes(r, <<Reply(200, "Logged out")>>)
    /\ pair' = NoPair
    /\ overtaken' = (overtaken \ {r}) \cup {x \in Reqs \ {r} : req[x].pc = "auth"}
    /\ UNCHANGED <<selectedFolder, nconn, boxes, store>>

\* ------------------------------------------------------ the connection
Live(c) == c # NULL /\ conns[c].state = "authenticated"

\* The folder selected on connection c, and whether it was opened read-only.
BoxOf(c) == conns[c].box

\* openBox ignoring the name it is given.
OpenedInbox(c, name, readOnly) ==
    [conns EXCEPT ![c].box = INBOX, ![c].readOnly = readOnly]

Opened(c, name, readOnly) ==
    [conns EXCEPT ![c].box = name, ![c].readOnly = readOnly]

\* Node arrays: the server's listing of a folder, as the identifiers in it.
Uids(msgs) == [i \in 1..Len(msgs) |-> msgs[i].uid]

Perms(S) ==
    { f \in [1..Cardinality(S) -> S] :
        \A i, j \in 1..Cardinality(S) : i # j => f[i] # f[j] }

Answer(r, q, out) ==
    /\ req' = [req EXCEPT ![r] = q]
    /\ res' = [res EXCEPT ![r] = Append(res[r], out)]

\* ------------------------------------------------------ GET /get-emails
\* The second argument of each handler's openBox call, and the fetch options.
GetOpenReadOnly == TRUE
DeleteOpenReadOnly == FALSE
\* markSeen left at the library's marking behaviour.
fetchOptionsMarkSeen ==
    [bodies |-> "", struct |-> TRUE, markSeen |-> TRUE, envelope |-> TRUE]

\* The flag handlers opening their folder read-write.
MarkOpenReadWrite == FALSE

MarkOpenReadOnly == TRUE

fetchOptions == [bodies |-> "", struct |-> TRUE, markSeen |-> FALSE, envelope |-> TRUE]

\* The selected folder assigned before the not-found test.
SelectedAssignedFirst(sel, selected) == selected

\* The selected folder after the resolution: it is assigned only past the
\* not-found return.
Selected(sel, selected) == IF selected = NoString THEN sel ELSE selected

\* getBoxes' callback: the folder is resolved against the listed names, it
\* becomes the selected folder, and it is opened.
GetBoxesDone(r) ==
    /\ req[r].pc = "getBoxes"
    /\ Live(req[r].conn)
    /\ \/ /\ Answer(r, Failed(req[r], "err"),
                    Reply(500, "Error fetching mailboxes"))
          /\ UNCHANGED selectedFolder
       \/ LET selected == find(boxes, req[r].folder)
          IN  IF selected = NoString
              THEN /\ Answer(r, [req[r] EXCEPT !.pc = "done"],
                             Reply(404, "Folder not found"))
                   /\ selectedFolder' = Selected(selectedFolder, selected)
              ELSE /\ selectedFolder' = Selected(selectedFolder, selected)
                   /\ req' = [req EXCEPT ![r].pc = "openBox", ![r].box = selected]
                   /\ UNCHANGED res
    /\ UNCHANGED <<imap, transporter, conns, transports, nconn, boxes, store,
                   pair, overtaken>>

\* openBox's callback in get-emails: page and page size are read and the
\* folder is searched.
GetOpenBoxDone(r) ==
    /\ req[r].pc = "openBox"
    /\ req[r].kind = "get"
    /\ Live(req[r].conn)
    /\ \/ /\ Answer(r, Failed(req[r], "err"),
                    Reply(500, "Error opening mailbox"))
          /\ UNCHANGED conns
       \/ /\ req[r].box \in Range(boxes)
          /\ conns' = Opened(req[r].conn, req[r].box, GetOpenReadOnly)
          /\ req' = [req EXCEPT ![r].pc = "search",
                                ![r].pageN = OrDefault(req[r].page, DefaultPage),
                                ![r].pageSizeN = OrDefault(req[r].perPage, DefaultPageSize)]
          /\ UNCHANGED res
    /\ UNCHANGED <<imap, transporter, selectedFolder, transports, nconn, boxes,
                   store, pair, overtaken>>

\* The slice taken as if the first page were page 0.
SlicedFromPageZero(results, page, pageSize) ==
    slice(SortDesc(results), page * pageSize, page * pageSize + pageSize)

\* The identifiers fetched: the page's slice of the identifiers, newest first.
Sliced(results, page, pageSize) ==
    slice(SortDesc(results), (page - 1) * pageSize, (page - 1) * pageSize + pageSize)

\* search's callback: totals, sort, slice, and the fetch of the slice.  The
\* library's fetch throws on an empty list of identifiers ("Nothing to
\* fetch"), which the try block around it answers with a 500.
SearchDone(r) ==
    /\ req[r].pc = "search"
    /\ Live(req[r].conn)
    /\ \/ Answer(r, Failed(req[r], "err"), Reply(500, "Error fetching emails"))
       \/ /\ BoxOf(req[r].conn) # NoString
          /\ LET results == Uids(store[BoxOf(req[r].conn)])
                 totalMessages == Len(results)
                 totalPages == Ceil(totalMessages, req[r].pageSizeN)
                 sliced == Sliced(results, req[r].pageN, req[r].pageSizeN)
                 q == [req[r] EXCEPT !.totalMessages = totalMessages,
                                     !.totalPages = totalPages,
                                     !.sliced = sliced]
             IN  IF sliced = <<>>
                 THEN Answer(r, Failed(q, "Nothing to fetch"),
                             Reply(500, "Error fetching emails"))
                 ELSE /\ req' = [req EXCEPT ![r] = [q EXCEPT !.pc = "fetch"]]
                      /\ UNCHANGED res
    /\ UNCHANGED <<imap, transporter, selectedFolder, conns, transports, nconn,
                   boxes, store, pair, overtaken>>

\* The emails in the order in which their parses completed.
EmailsInCompletionOrder(messages, parsed) ==
    [k \in 1..Len(parsed) |->
        [id |-> messages[parsed[k]].id, seen |-> messages[parsed[k]].seen]]

\* Promise.all(messagePromises): the emails, one per element of messages.
Emails(messages, parsed) ==
    [k \in 1..Len(messages) |-> [id |-> messages[k].id, seen |-> messages[k].seen]]

\* The folder after a fetch of the messages at the positions in found.
Fetched(msgs, found, readOnly) ==
    IF fetchOptions.markSeen /\ ~readOnly
    THEN [i \in 1..Len(msgs) |-> IF i \in found THEN [msgs[i] EXCEPT !.seen = TRUE]
                                              ELSE msgs[i]]
    ELSE msgs

\* The "message" events of a fetch and its "end": the server delivers the
\* messages of the selected folder whose identifier was asked for, in an order
\* of its choosing; each is pushed to messages with its sequence number and
\* its seen flag.  On "end" the parses start; with no message delivered the
\* join resolves at once.
FetchDelivered(r) ==
    /\ BoxOf(req[r].conn) # NoString
    /\ LET c == req[r].conn
           msgs == store[BoxOf(c)]
           found == {i \in 1..Len(msgs) : msgs[i].uid \in Range(req[r].sliced)}
       IN  /\ store' = [store EXCEPT ![BoxOf(c)] = Fetched(msgs, found, conns[c].readOnly)]
           /\ \E ord \in Perms(found) :
                LET messages == [k \in 1..Len(ord) |->
                                   [id |-> ord[k], seen |-> msgs[ord[k]].seen]]
                    q == [req[r] EXCEPT !.messages = messages]
                IN  IF messages = <<>>
                    THEN Answer(r, [q EXCEPT !.pc = "done"],
                                PageResult(Emails(messages, <<>>), q))
                    ELSE /\ req' = [req EXCEPT ![r] = [q EXCEPT !.pc = "parse"]]
                         /\ UNCHANGED res

\* The fetch completes.  A fetch that fails emits "error", for which the
\* handler registers no listener: nothing answers the request.
FetchDone(r) ==
    /\ req[r].pc = "fetch"
    /\ req[r].kind = "get"
    /\ Live(req[r].conn)
    /\ \/ /\ req' = [req EXCEPT ![r].pc = "hung", ![r].error = "err"]
          /\ UNCHANGED <<store, res>>
       \/ FetchDelivered(r)
    /\ UNCHANGED <<imap, transporter, selectedFolder, conns, transports, nconn,
                   boxes, pair, overtaken>>

\* One parse completes; when all have, the join resolves and the page is sent.
\* A parse that is rejected rejects the async executor of its promise, which
\* then never resolves: the join never resolves and nothing answers.
ParseDone(r) ==
    /\ req[r].pc = "parse"
    /\ req[r].kind = "get"
    /\ \/ \E i \in (1..Len(req[r].messages)) \ Range(req[r].parsed) :
            LET q == [req[r] EXCEPT !.parsed = Append(req[r].parsed, i)]
            IN  IF Len(q.parsed) = Len(q.messages)
                THEN Answer(r, [q EXCEPT !.pc = "done"],
                            PageResult(Emails(q.messages, q.parsed), q))
                ELSE /\ req' = [req EXCEPT ![r] = q]
                     /\ UNCHANGED res
       \/ /\ req' = [req EXCEPT ![r].pc = "hung", ![r].error = "parse"]
          /\ UNCHANGED res
    /\ UNCHANGED <<imap, transporter, selectedFolder, conns, transports, nconn,
                   boxes, store, pair, overtaken>>

\* ------------------------------- POST /mark-as-read, POST /mark-as-unread
MarkError(kind) ==
    IF kind = "read" THEN "Error marking email as seen"
    ELSE "Error marking email as unread"

MarkOk(kind) ==
    IF kind = "read" THEN "Email marked as seen" ELSE "Email marked as unread"

MarkOpenBoxDone(r) ==
    /\ req[r].pc = "openBox"
    /\ req[r].kind \in {"read", "unread"}
    /\ Live(req[r].conn)
    /\ \/ /\ Answer(r, Failed(req[r], "err"),
                    Reply(500, "Error opening mailbox"))
          /\ pair' = NoPair
          /\ UNCHANGED conns
       \/ /\ req[r].box \in Range(boxes)
          /\ conns' = Opened(req[r].conn, req[r].box, MarkOpenReadOnly)
          /\ req' = [req EXCEPT ![r].pc = "store"]
          /\ UNCHANGED <<res, pair>>
    /\ UNCHANGED <<imap, transporter, selectedFolder, transports, nconn, boxes,
                   store, overtaken>>

\* The server's STORE of a flag on the message at sequence number id of a
\* folder: refused in effect when the folder was opened read-only or holds no
\* such message.
Stored(msgs, id, flag, value, readOnly) ==
    IF readOnly \/ id > Len(msgs)
    THEN msgs
    ELSE [msgs EXCEPT ![id] = [msgs[id] EXCEPT ![flag] = value]]

PairAfter(r, kind, id, box, before, after) ==
    IF ~Alone(r) THEN NoPair
    ELSE IF pair.stage = 1 /\ pair.kind # kind /\ pair.id = id /\ pair.box = box
    THEN [pair EXCEPT !.stage = 2, !.after = after]
    ELSE [stage |-> 1, kind |-> kind, id |-> id, box |-> box,
          before |-> before, after |-> after]

\* seq.addFlags / seq.delFlags' callback.
MarkStoreDone(r) ==
    /\ req[r].pc = "store"
    /\ req[r].kind \in {"read", "unread"}
    /\ Live(req[r].conn)
    /\ \/ /\ Answer(r, Failed(req[r], "err"),
                    Reply(500, MarkError(req[r].kind)))
          /\ pair' = NoPair
          /\ UNCHANGED store
       \/ /\ BoxOf(req[r].conn) # NoString
          /\ LET c == req[r].conn
                 b == BoxOf(c)
                 id == req[r].id
                 after == Stored(store[b], id, "seen", req[r].kind = "read",
                                 conns[c].readOnly)
             IN  /\ store' = [store EXCEPT ![b] = after]
                 /\ pair' = IF id > Len(store[b]) THEN NoPair
                            ELSE PairAfter(r, req[r].kind, id, b, store[b][id].seen,
                                           after[id].seen)
          /\ Answer(r, [req[r] EXCEPT !.pc = "done"], Reply(200, MarkOk(req[r].kind)))
    /\ UNCHANGED <<imap, transporter, selectedFolder, conns, transports, nconn,
                   boxes, overtaken>>

\* ---------------------------------------------------- POST /delete-email
DeleteOpenBoxDone(r) ==
    /\ req[r].pc = "openBox"
    /\ req[r].kind = "delete"
    /\ Live(req[r].conn)
    /\ \/ /\ Answer(r, Failed(req[r], "err"),
                    Reply(500, "Error opening mailbox"))
          /\ UNCHANGED conns
       \/ /\ req[r].box \in Range(boxes)
          /\ conns' = Opened(req[r].conn, req[r].box, DeleteOpenReadOnly)
          /\ req' = [req EXCEPT ![r].pc = "store"]
          /\ UNCHANGED res
    /\ UNCHANGED <<imap, transporter, selectedFolder, transports, nconn, boxes,
                   store, pair, overtaken>>

\* seq.addFlags(id, "\\Deleted")'s callback: the 200 is sent, then the
\* expunge is issued.
DeleteStoreDone(r) ==
    /\ req[r].pc = "store"
    /\ req[r].kind = "delete"
    /\ Live(req[r].conn)
    /\ \/ /\ Answer(r, Failed(req[r], "err"),
                    Reply(500, "Error deleting email"))
          /\ UNCHANGED store
       \/ /\ BoxOf(req[r].conn) # NoString
          /\ LET c == req[r].conn
                 b == BoxOf(c)
             IN  store' = [store EXCEPT ![b] =
                             Stored(store[b], req[r].id, "deleted", TRUE,
                                    conns[c].readOnly)]
          /\ Answer(r, [req[r] EXCEPT !.pc = "expunge"], Reply(200, "Email deleted"))
    /\ UNCHANGED <<imap, transporter, selectedFolder, conns, transports, nconn,
                   boxes, pair, overtaken>>

\* An expunge that removes nothing.
ExpungeOmitted(msgs) == msgs

\* The folder after an expunge: the messages flagged deleted are removed and
\* the others renumbered.
RECURSIVE Expunged(_)
Expunged(msgs) ==
    IF msgs = <<>> THEN <<>>
    ELSE IF Head(msgs).deleted THEN Expunged(Tail(msgs))
         ELSE <<Head(msgs)>> \o Expunged(Tail(msgs))

\* expunge's callback: an error is logged and a second response is written
\* to the request that was already answered.
ExpungeDone(r) ==
    /\ req[r].pc = "expunge"
    /\ Live(req[r].conn)
    /\ \/ /\ req' = [req EXCEPT ![r] = [Failed(req[r], "err") EXCEPT !.late = TRUE]]
          /\ UNCHANGED store
       \/ /\ BoxOf(req[r].conn) # NoString
          /\ ~conns[req[r].conn].readOnly
          /\ store' = [store EXCEPT ![BoxOf(req[r].conn)] = Expunged(@)]
          /\ req' = [req EXCEPT ![r].pc = "done"]
    /\ UNCHANGED <<imap, transporter, selectedFolder, conns, transports, nconn,
                   boxes, res, pair, overtaken>>

\* ------------------------------------------------------ POST /send-reply
ReplyOpenReadOnly == FALSE

ReplyOpenBoxDone(r) ==
    /\ req[r].pc = "openBox"
    /\ req[r].kind = "reply"
    /\ Live(req[r].conn)
    /\ \/ /\ Answer(r, Failed(req[r], "err"),
                    Reply(500, "Error opening mailbox"))
          /\ UNCHANGED conns
       \/ /\ req[r].box \in Range(boxes)
          /\ conns' = Opened(req[r].conn, req[r].box, ReplyOpenReadOnly)
          /\ req' = [req EXCEPT ![r].pc = "fetch"]
          /\ UNCHANGED res
    /\ UNCHANGED <<imap, transporter, selectedFolder, transports, nconn, boxes,
                   store, pair, overtaken>>

\* seq.fetch(id): the message at sequence number id of the selected folder is
\* delivered and its parse starts; when the folder holds no such message no
\* "message" event comes and nothing answers the request.
ReplyFetchDone(r) ==
    /\ req[r].pc = "fetch"
    /\ req[r].kind = "reply"
    /\ Live(req[r].conn)
    /\ BoxOf(req[r].conn) # NoString
    /\ LET c == req[r].conn
           msgs == store[BoxOf(c)]
           id == req[r].id
       IN  IF id <= Len(msgs)
           THEN /\ store' = [store EXCEPT ![BoxOf(c)] =
                               Fetched(msgs, {id}, conns[c].readOnly)]
                /\ req' = [req EXCEPT ![r].pc = "parse",
                                      ![r].messages = <<[id |-> id, seen |-> msgs[id].seen]>>]
           ELSE /\ req' = [req EXCEPT ![r].pc = "hung"]
                /\ UNCHANGED store
    /\ UNCHANGED <<imap, transporter, selectedFolder, conns, transports, nconn,
                   boxes, res, pair, overtaken>>

\* simpleParser settles: the reply is composed and sent; a rejected parse
\* rejects the body callback's promise, which nothing handles.
ReplyParseDone(r) ==
    /\ req[r].pc = "parse"
    /\ req[r].kind = "reply"
    /\ \/ req' = [req EXCEPT ![r].pc = "send", ![r].parsed = <<1>>]
       \/ req' = [req EXCEPT ![r].pc = "hung", ![r].error = "parse"]
    /\ UNCHANGED <<imap, transporter, selectedFolder, conns, transports, nconn,
                   boxes, store, res, pair, overtaken>>

\* The append issued whatever the outcome of the send.
AfterSendAlwaysAppend(ok) == "append"

\* What follows sendMail's callback: the append on success, nothing (return)
\* on failure.
AfterSend(ok) == IF ok THEN "append" ELSE "done"

\* sendMail's callback: on success the 200 is sent and the copy is appended
\* to "Sent".
ReplySendDone(r) ==
    /\ req[r].pc = "send"
    /\ \/ Answer(r, [Failed(req[r], "err") EXCEPT !.pc = AfterSend(FALSE)],
                 Reply(500, "Error sending reply"))
       \/ Answer(r, [req[r] EXCEPT !.pc = AfterSend(TRUE)], Reply(200, "Reply sent"))
    /\ UNCHANGED <<imap, transporter, selectedFolder, conns, transports, nconn,
                   boxes, store, pair, overtaken>>

\* append's callback: an error is logged.
ReplyAppendDone(r) ==
    /\ req[r].pc = "append"
    /\ Live(req[r].conn)
    /\ \/ /\ req' = [req EXCEPT ![r] = Failed(req[r], "err")]
          /\ UNCHANGED store
       \/ /\ Sent \in Range(boxes)
          /\ Len(store[Sent]) < MaxSent
          /\ store' = [store EXCEPT ![Sent] =
                         Append(@, [uid |-> Len(@) + 1, seen |-> FALSE,
                                    deleted |-> FALSE])]
          /\ req' = [req EXCEPT ![r].pc = "done"]
    /\ UNCHANGED <<imap, transporter, selectedFolder, conns, transports, nconn,
                   boxes, res, pair, overtaken>>

\* -------------------------------------------------------- specifications
Queries == { NoString, <<"s", "e", "n", "t">>, <<"T", "R", "A">>, <<"x", "y">> }

Kinds == {"get", "read", "unread", "reply", "delete", "login"}

\* Two requests, each arriving at any time: they may overlap in any way.
OverlapIn ==
    [kinds |-> Kinds,
     creds |-> {"none", "alice", "bob"},
     folders |-> {NoString, <<"T", "R", "A">>},
     pages |-> {0},
     perPages |-> {0},
     ids |-> {1}]

Next ==
    \E r \in Reqs :
        \/ req[r].pc = "idle" /\ Arrive(r, OverlapIn)
        \/ req[r].pc = "idle" /\ Logout(r)
        \/ AuthReady(r)
        \/ AuthError(r)
        \/ GetBoxesDone(r)
        \/ GetOpenBoxDone(r)
        \/ SearchDone(r)
        \/ FetchDone(r)
        \/ ParseDone(r)
        \/ MarkOpenBoxDone(r)
        \/ MarkStoreDone(r)
        \/ DeleteOpenBoxDone(r)
        \/ DeleteStoreDone(r)
        \/ ExpungeDone(r)
        \/ ReplyOpenBoxDone(r)
        \/ ReplyFetchDone(r)
        \/ ReplyParseDone(r)
        \/ ReplySendDone(r)
        \/ ReplyAppendDone(r)

Spec == InitWith(FolderLists, Mailboxes(SmallMsgs, 0)) /\ [][Next]_vars

\* Any number of requests to the listing, flag, reply and login endpoints and
\* logouts, one at a time: a request arrives when the one before it is finished.
SerialIn ==
    [kinds |-> Kinds \ {"delete"},
     creds |-> {"none", "alice"},
     folders |-> Queries,
     pages |-> {0},
     perPages |-> {0},
     ids |-> 1..MaxId]

SerialNext ==
    \E r \in {"A"} :
        \/ Arrive(r, SerialIn)
        \/ Logout(r)
        \/ AuthReady(r)
        \/ AuthError(r)
        \/ GetBoxesDone(r)
        \/ GetOpenBoxDone(r)
        \/ SearchDone(r)
        \/ FetchDone(r)
        \/ ParseDone(r)
        \/ MarkOpenBoxDone(r)
        \/ MarkStoreDone(r)
        \/ ReplyOpenBoxDone(r)
        \/ ReplyFetchDone(r)
        \/ ReplyParseDone(r)
        \/ ReplySendDone(r)
        \/ ReplyAppendDone(r)

SerialSpec == InitWith(FolderLists, Mailboxes(SmallMsgs, 0)) /\ [][SerialNext]_vars

\* One GET /get-emails request on a fresh server, over every folder content,
\* page and page size within the bounds.
PageIn ==
    [kinds |-> {"get"},
     creds |-> {"alice"},
     folders |-> Queries,
     pages |-> 0..MaxPage,
     perPages |-> 0..MaxPerPage,
     ids |-> {}]

PageNext ==
    \E r \in {"A"} :
        \/ req[r].pc = "idle" /\ Arrive(r, PageIn)
        \/ AuthReady(r)
        \/ AuthError(r)
        \/ GetBoxesDone(r)
        \/ GetOpenBoxDone(r)
        \/ SearchDone(r)
        \/ FetchDone(r)
        \/ ParseDone(r)

PageSpec == Init /\ [][PageNext]_vars

\* Listings of Trash and deletions, one request at a time, on a Trash folder
\* of up to MaxId unseen messages; the server answers every expunge it was
\* sent.
DeleteIn ==
    [kinds |-> {"get", "delete"},
     creds |-> {"alice"},
     folders |-> {<<"T", "R", "A">>},
     pages |-> {0},
     perPages |-> {0},
     ids |-> 1..MaxId]

DeleteNext ==
    \E r \in {"A"} :
        \/ Arrive(r, DeleteIn)
        \/ AuthReady(r)
        \/ AuthError(r)
        \/ GetBoxesDone(r)
        \/ GetOpenBoxDone(r)
        \/ SearchDone(r)
        \/ FetchDone(r)
        \/ ParseDone(r)
        \/ DeleteOpenBoxDone(r)
        \/ DeleteStoreDone(r)
        \/ ExpungeDone(r)

DeleteSpec ==
    /\ InitOn(FolderLists, {<<>>},
              {m \in Mailboxes(MaxId, 0) : \A i \in 1..Len(m) : ~m[i].seen})
    /\ [][DeleteNext]_vars
    /\ WF_vars(ExpungeDone("A"))

\* ---------------------------------------------------------------- claims
\* The first response of a request, and the folder a listing reads.
Out(r) == res[r][1]

Answered200(r) ==
    req[r].kind = "get" /\ req[r].pc = "done" /\ res[r] # <<>> /\ Out(r).status = 200

Ids(emails) == {emails[k].id : k \in 1..Len(emails)}

\* C1: a GET /get-emails whose folder was resolved and whose protocol calls
\* did not fail answers 200 with totalMessages = N, totalPages = ceil(N /
\* pageSize) and at most pageSize emails, and an out-of-range page (page 1 of
\* an empty folder included) is answered 200 with an empty emails list.
C1_PageAnswered ==
    \A r \in Reqs :
        (req[r].kind = "get" /\ req[r].pc = "done" /\ req[r].box # NoString
           /\ req[r].error # "err")
        => LET N == Len(store[req[r].box])
               ps == req[r].pageSizeN
           IN  /\ Out(r).status = 200
               /\ Out(r).totalMessages = N
               /\ Out(r).totalPages * ps >= N
               /\ (Out(r).totalPages - 1) * ps < N
               /\ Len(Out(r).emails) <= ps
               /\ ((req[r].pageN - 1) * ps >= N => Out(r).emails = <<>>)

\* C2: on a folder whose identifiers are 1..N, the ids of the emails of a 200
\* answer are the identifiers at positions [(page-1)*pageSize,
\* (page-1)*pageSize + pageSize) of N, N-1, .., 1; exactly those identifiers
\* were fetched, and each record carries the id and the seen flag of the
\* message with that identifier.
C2_PageSlice ==
    \A r \in Reqs :
        (Answered200(r)
           /\ Uids(store[req[r].box]) = [i \in 1..Len(store[req[r].box]) |-> i])
        => LET N == Len(store[req[r].box])
               from == (req[r].pageN - 1) * req[r].pageSizeN
               want == {N - p : p \in from..(from + req[r].pageSizeN - 1)} \cap (1..N)
               emails == Out(r).emails
           IN  /\ Ids(emails) = want
               /\ Len(emails) = Cardinality(want)
               /\ Range(req[r].sliced) = want
               /\ Len(req[r].sliced) = Cardinality(want)
               /\ \A k \in 1..Len(emails) :
                    /\ store[req[r].box][emails[k].id].uid = emails[k].id
                    /\ store[req[r].box][emails[k].id].seen = emails[k].seen

C2_SecondPageReached ==
    \E r \in Reqs :
        /\ Answered200(r)
        /\ Uids(store[req[r].box]) = <<1, 2, 3>>
        /\ req[r].pageN = 2
        /\ req[r].pageSizeN = 2
        /\ Ids(Out(r).emails) = {1}

\* C3: the emails of every 200 page result are in strictly descending order
\* of id.
C3_NewestFirst ==
    \A r \in Reqs :
        Answered200(r)
        => \A k \in 1..(Len(Out(r).emails) - 1) :
             Out(r).emails[k].id > Out(r).emails[k + 1].id

SeenFlags ==
    [f \in DOMAIN store |-> [i \in 1..Len(store[f]) |-> store[f][i].seen]]

\* C4: no step of a GET /get-emails request, from its arrival to its answer
\* or failure, changes the seen flag of any message of any folder.
C4_ListingKeepsSeen ==
    [][\A r \in Reqs :
          (req'[r].kind = "get" /\ req'[r] # req[r]) => SeenFlags' = SeenFlags]_vars

C4_UnseenListed ==
    \E r \in Reqs :
        /\ Answered200(r)
        /\ \E k \in 1..Len(Out(r).emails) :
             /\ ~Out(r).emails[k].seen
             /\ \E f \in DOMAIN store :
                  /\ Len(store[f]) >= Out(r).emails[k].id
                  /\ ~store[f][Out(r).emails[k].id].seen

C6_OneLiveSession ==
    /\ \A c \in ConnIds : conns[c].state = "authenticated" => imap = c
    /\ \A c \in ConnIds : transports[c] = "live" => transporter = c

\* C7: a request with credentials that arrives while the connection handle
\* is non-null starts no connect/authenticate call, leaves both handles and
\* the session's connections unchanged, and its handler runs on the
\* connection the handle holds.
C7_SessionReused ==
    [][\A r \in Reqs :
          (req[r].pc = "idle" /\ req'[r].pc # "idle" /\ req'[r].kind # "logout"
             /\ req'[r].cred # "none" /\ imap # NULL)
          => /\ imap' = imap
             /\ transporter' = transporter
             /\ nconn' = nconn
             /\ conns' = conns
             /\ transports' = transports
             /\ req'[r].pc # "auth"
             /\ (req'[r].kind # "login" => req'[r].conn = imap)]_vars

C7_OtherUserServed ==
    \E r \in Reqs :
        /\ req[r].cred = "bob"
        /\ req[r].pc = "openBox"
        /\ req[r].conn = imap
        /\ conns[imap].user = "alice"

\* C8: when the connect/authenticate call of a request fails while the
\* connection handle is null, both handles are null afterwards and nothing of
\* the handler has run (no response, no folder selected, no message touched);
\* and the next request with credentials starts a new connection.
C8_FailedAuthRetried ==
    [][\A r \in Reqs :
          /\ (req[r].pc = "auth" /\ req'[r].pc = "rejected" /\ imap = NULL)
             => /\ imap' = NULL
                /\ transporter' = NULL
                /\ res'[r] = <<>>
                /\ UNCHANGED <<selectedFolder, store>>
                /\ \A c \in ConnIds : conns'[c].box = conns[c].box
          /\ (req[r].pc = "rejected" /\ imap = NULL /\ req'[r] # req[r]
                /\ req'[r].kind # "logout" /\ req'[r].cred # "none")
             => /\ req'[r].pc = "auth"
                /\ nconn' = nconn + 1
                /\ req'[r].conn = nconn'
                /\ conns'[nconn'].state = "connecting"]_vars

C8_RetryAfterFailure ==
    \E r \in Reqs :
        /\ req[r].pc = "auth"
        /\ req[r].conn = 2
        /\ conns[1].state = "disconnected"
        /\ transports[1] = "none"
        /\ imap = NULL
        /\ transporter = NULL

\* C9: every request to an authenticated endpoint that ends in an
\* authentication failure (credentials missing, or the connect/authenticate
\* call failed) has received a 401 response.
C9_AuthFailure401 ==
    \A r \in Reqs :
        (\/ req[r].pc = "rejected"
         \/ (Finished(req[r]) /\ req[r].kind \notin {"none", "logout"}
               /\ req[r].cred = "none"))
        => (Len(res[r]) = 1 /\ Out(r).status = 401)

\* Two characters that are equal up to case; a name contained in a key up to
\* case.
SameLetter(a, b) == a = b \/ <<a, b>> \in UpperLower \/ <<b, a>> \in UpperLower

ContainsIgnoringCase(key, name) ==
    \E off \in 0..(Len(key) - Len(name)) :
        \A k \in 1..Len(name) : SameLetter(key[off + k], name[k])

HandlerRunning(q) ==
    q.pc \in {"openBox", "store", "fetch", "parse", "send", "append"}

\* C10: the folder a listing resolves is the first of the listed folders whose
\* name contains the requested name (INBOX when none is given) up to case,
\* and a 404 is answered only when no listed folder does; the resolved
\* folder is the selected folder, and a later markRead, markUnread or reply
\* opens the selected folder and acts on it.
C10_FolderResolution ==
    \A r \in Reqs :
        LET q == req[r]
            name == IF q.query = NoString THEN INBOX ELSE q.query
        IN  /\ (q.kind = "get" /\ q.box # NoString)
               => /\ \E i \in 1..Len(boxes) :
                       /\ boxes[i] = q.box
                       /\ ContainsIgnoringCase(boxes[i], name)
                       /\ \A j \in 1..(i - 1) : ~ContainsIgnoringCase(boxes[j], name)
                  /\ selectedFolder = q.box
            /\ (q.kind = "get" /\ q.pc = "done" /\ res[r] # <<>> /\ Out(r).status = 404)
               => \A i \in 1..Len(boxes) : ~ContainsIgnoringCase(boxes[i], name)
            /\ (q.kind \in {"read", "unread", "reply"} /\ HandlerRunning(q))
               => /\ q.box = selectedFolder
                  /\ (q.pc \in {"store", "fetch"} => BoxOf(q.conn) = selectedFolder)

C10_SentItemsSelected ==
    \E r \in Reqs :
        /\ req[r].kind = "read"
        /\ req[r].pc = "store"
        /\ req[r].box = SentItems
        /\ BoxOf(req[r].conn) = SentItems
        /\ boxes = <<INBOX, SentItems, Sent, Trash>>

NoMatch(name) == \A i \in 1..Len(boxes) : ~ContainsIgnoringCase(boxes[i], name)

\* C11: when the requested folder name matches none of the listed folders,
\* the getBoxes callback of GET /get-emails answers 404 and ends the handler:
\* no folder is opened, no message is fetched or touched, and the selected
\* folder and both handles stay as they were; the 404 stays the request's
\* only response.
C11_NotFoundAnswered ==
    [][\A r \in Reqs :
          /\ (req[r].pc = "getBoxes" /\ req'[r] # req[r] /\ req'[r].error = "none"
                /\ NoMatch(req[r].folder))
             => /\ req'[r].pc = "done"
                /\ res'[r] = <<Reply(404, "Folder not found")>>
                /\ req'[r].box = NoString
                /\ req'[r].sliced = <<>>
                /\ req'[r].messages = <<>>
                /\ UNCHANGED <<selectedFolder, imap, transporter, conns, transports,
                               store>>
          /\ (req[r].pc = "done" /\ req[r].kind = "get" /\ res[r] # <<>>
                /\ Out(r).status = 404)
             => (req'[r] = req[r] => res'[r] = res[r])]_vars

C11_NotFoundKeepsSelection ==
    \E r \in Reqs :
        /\ req[r].kind = "get"
        /\ req[r].pc = "done"
        /\ res[r] = <<Reply(404, "Folder not found")>>
        /\ selectedFolder = SentItems
        /\ imap # NULL
        /\ transporter # NULL

InTrash(u) == \E i \in 1..Len(store[Trash]) : store[Trash][i].uid = u

FlaggedInTrash(u) ==
    \E i \in 1..Len(store[Trash]) : store[Trash][i].uid = u /\ store[Trash][i].deleted

ExpungePending(r) == req[r].kind = "delete" /\ req[r].pc = "expunge"

\* C12: with requests served one at a time, a delete-email request is
\* answered 200 while its expunge is still pending and the message is still
\* in Trash, flagged deleted; once the expunge has completed without failing
\* the message is no longer in Trash; a message that left Trash never comes
\* back, and a later listing of Trash shows exactly the messages left in it.
C12_DeletedEventuallyGone ==
    /\ [](\A r \in Reqs :
            ExpungePending(r)
            => /\ res[r] = <<Reply(200, "Email deleted")>>
               /\ (req[r].id <= Len(store[Trash]) => store[Trash][req[r].id].deleted))
    /\ \A u \in 1..MaxId :
          (ExpungePending("A") /\ FlaggedInTrash(u))
          ~> (req["A"].kind = "delete" /\ req["A"].pc = "done"
                /\ (req["A"].error = "err" \/ ~InTrash(u)))
    /\ [][Range(Uids(store'[Trash])) \subseteq Range(Uids(store[Trash]))]_vars
    /\ [](\A r \in Reqs :
            (Answered200(r) /\ req[r].box = Trash)
            => Ids(Out(r).emails) = 1..Len(store[Trash]))

C12_TrashListedAfterDelete ==
    /\ Answered200("A")
    /\ req["A"].box = Trash
    /\ Uids(store[Trash]) = <<2>>
    /\ Ids(Out("A").emails) = {1}

\* C13: a logout ends the connection and closes the outbound client the
\* handles hold and sets both handles to null in one step; and a handle that
\* is null becomes non-null only by a request that arrived after the last
\* logout, never by one whose authentication was in flight when it ran.
C13_LogoutInvalidates ==
    [][\A r \in Reqs :
          /\ (req'[r].kind = "logout" /\ req'[r] # req[r])
             => /\ imap' = NULL
                /\ transporter' = NULL
                /\ (imap # NULL => conns'[imap].state = "disconnected")
                /\ (transporter # NULL => transports'[transporter] = "closed")
          /\ (req'[r] # req[r]
                /\ \/ (imap = NULL /\ imap' # NULL)
                   \/ (transporter = NULL /\ transporter' # NULL))
             => r \notin overtaken]_vars

\* A flag update or an expunge of request r takes effect in this step.
MutationStep(r) ==
    /\ req[r].kind \in {"read", "unread", "delete"}
    /\ req[r].pc \in {"store", "expunge"}
    /\ req'[r].pc # req[r].pc
    /\ req'[r].error = "none"

\* C14: a flag update or expunge of a request executes on the folder selected
\* on the connection when it runs; that folder is the one the request opened
\* unless another request opened its own folder on the same connection in
\* between, which nothing prevents; served alone, every mutation executes on
\* the folder its request opened.
C14_MutationOnOpenedFolder ==
    [][\A r \in Reqs :
          MutationStep(r)
          => \/ BoxOf(req[r].conn) = req[r].box
             \/ \E x \in Reqs \ {r} :
                  /\ req[x].conn = req[r].conn
                  /\ req[x].box = BoxOf(req[r].conn)
                  /\ req[x].pc \notin {"idle", "auth", "getBoxes", "openBox"}]_vars

C14_DeleteFlagsInbox ==
    \E r \in Reqs :
        /\ ExpungePending(r)
        /\ req[r].box = Trash
        /\ BoxOf(req[r].conn) = INBOX
        /\ ~store[Trash][1].deleted
        /\ Len(store[INBOX]) >= 1
        /\ store[INBOX][1].deleted

\* C15: markRead and markUnread open the selected folder read-write, so the
\* folder their flag change runs on permits it, and after a 200 the seen flag
\* of the message is true after markRead and false after markUnread.
C15_MarkChangesFlag ==
    /\ \A r \in Reqs :
          (req[r].kind \in {"read", "unread"} /\ req[r].pc = "store")
          => ~conns[req[r].conn].readOnly
    /\ (pair.stage = 1 => pair.after = (pair.kind = "read"))

\* The request passed the middleware and its handler ran.
ReachedHandler(q) ==
    /\ q.kind \in Kinds
    /\ q.cred # "none"
    /\ q.pc \notin {"idle", "auth", "rejected"}

\* C16: every request whose handler ran and has nothing left to run has
\* received exactly one response, and when its handler met a failure before
\* answering, that response is a 500.
C16_OneResponse ==
    \A r \in Reqs :
        (ReachedHandler(req[r]) /\ Finished(req[r]))
        => /\ Len(res[r]) = 1
           /\ (req[r].error # "none" /\ Out(r).status # 200 => Out(r).status = 500)

\* C17: a GET /get-emails whose handler has nothing left to run has exactly
\* one response; when opening, searching or fetching failed it is a failure
\* response without emails, and a 200 carries every sliced message, fetched
\* and parsed.
C17_AllOrNothing ==
    \A r \in Reqs :
        (req[r].kind = "get" /\ ReachedHandler(req[r]) /\ Finished(req[r]))
        => /\ Len(res[r]) = 1
           /\ (req[r].error # "none"
                 => Out(r).status = 500 /\ Out(r).emails = <<>>)
           /\ (Out(r).status = 200
                 => /\ Len(Out(r).emails) = Len(req[r].sliced)
                    /\ Len(req[r].parsed) = Len(req[r].sliced))

\* C18: a delete-email request whose expunge failed after the 200 has that
\* 200 as its only response, its handler wrote no response after it, and
\* the message is still in Trash, flagged deleted.
C18_ExpungeFailureOnlyLogged ==
    \A r \in Reqs :
        (req[r].kind = "delete" /\ req[r].pc = "done" /\ req[r].error = "err"
           /\ res[r] # <<>> /\ Out(r).status = 200)
        => /\ res[r] = <<Reply(200, "Email deleted")>>
           /\ ~req[r].late
           /\ (req[r].id <= Len(store[Trash]) => store[Trash][req[r].id].deleted)

\* C19: in a reply the append to "Sent" is issued only in the step in which
\* the send succeeded and the 200 was written; a failed send is answered 500
\* and ends the handler with no append issued; and the append's callback,
\* failing or not, leaves the responses as they are.
C19_AppendAfterSend ==
    [][\A r \in Reqs :
          /\ (req[r].pc # "append" /\ req'[r].pc = "append")
             => /\ req[r].kind = "reply"
                /\ req[r].pc = "send"
                /\ req'[r].error = "none"
                /\ res'[r] = <<Reply(200, "Reply sent")>>
                /\ store' = store
          /\ (req[r].pc = "send" /\ req'[r].pc # "send" /\ req'[r].error # "none")
             => /\ req'[r].pc = "done"
                /\ res'[r] = <<Reply(500, "Error sending reply")>>
                /\ store' = store
          /\ (req[r].pc = "append" /\ req'[r].pc # "append")
             => /\ res'[r] = res[r]
                /\ req'[r].pc = "done"
                /\ (req'[r].error # "none" => store' = store)]_vars

C19_AppendFailedAfter200 ==
    \E r \in Reqs :
        /\ req[r].kind = "reply"
        /\ req[r].pc = "done"
        /\ req[r].error = "err"
        /\ res[r] = <<Reply(200, "Reply sent")>>
        /\ store[Sent] = <<>>

\* C20 as stated: the emails of a 200 page result are in the order in which
\* the parses of the fetched messages completed.
C20_CompletionOrder ==
    \A r \in Reqs :
        Answered200(r)
        => /\ Len(Out(r).emails) = Len(req[r].parsed)
           /\ \A k \in 1..Len(req[r].parsed) :
                Out(r).emails[k].id = req[r].messages[req[r].parsed[k]].id

\* C20, amended: the emails of a 200 page result are in the order in which
\* the fetched messages were delivered (the order of the messages array),
\* whatever the order in which their parses completed.
C20_DeliveryOrder ==
    \A r \in Reqs :
        Answered200(r)
        => /\ Len(Out(r).emails) = Len(req[r].messages)
           /\ \A k \in 1..Len(req[r].messages) :
                Out(r).emails[k].id = req[r].messages[k].id

C20_LaterFetchedParsedFirst ==
    \E r \in Reqs :
        /\ Answered200(r)
        /\ Len(req[r].messages) = 2
        /\ req[r].parsed = <<2, 1>>
        /\ Out(r).emails[1].id = req[r].messages[1].id
        /\ Out(r).emails[1].id # Out(r).emails[2].id
====
